---- MODULE Spec2Model ----
(***************************************************************************)
(* A model of package logger (teolandon/logger): the package-level state   *)
(* of logger.go, the name registry of set.go, the Logger type and its      *)
(* methods, and the package-level wrappers around the standard logger.     *)
(*                                                                         *)
(* Text is modelled as a sequence of tokens, so that formatting            *)
(* (fmt.Sprint of a slice, fmt.Sprintln, the newline log.Output adds) is   *)
(* visible in what reaches a file.  A file is a sequence of lines; every   *)
(* Logger owns a handle on its file with its own write offset, as          *)
(* os.Create gives it.                                                     *)
(***************************************************************************)
EXTENDS Integers, Sequences, FiniteSets, TLC

VARIABLES
    enabled,        \* logger.go:17  enabled
    programName,    \* logger.go:16  programName
    logPath,        \* logger.go:15  logPath
    stdlogger,      \* logger.go:14  stdlogger: 0 is nil, else an index of loggers
    fileSet,        \* logger.go:18  fileSet: the map of set.go, key -> stored name
    containsEmpty,  \* set.go:7      containsEmpty
    loggers,        \* every Logger value New has returned, in order of creation
    files,          \* the run directory: name -> lines of <name>.log
    status,         \* "running", "exited" (os.Exit) or "panicked"
    exitCode,       \* the process exit status once it has ended, else 0
    last,           \* the call made by the last step and what it returned
    cpc,            \* concurrent callers of New: position inside New
    cname,          \* concurrent callers of New: the filename argument
    cres            \* concurrent callers of New: what the call returned

vars == <<enabled, programName, logPath, stdlogger, fileSet, containsEmpty,
          loggers, files, status, exitCode, last, cpc, cname, cres>>

pkgVars == <<enabled, programName, logPath, stdlogger, fileSet, containsEmpty>>
concVars == <<cpc, cname, cres>>

(***************************************************************************)
(* Bounds of the model.                                                    *)
(***************************************************************************)
\* width in bits of the machine integer holding a tab level
IntBits == 2
\* how many Logger values one run creates
MaxLoggers == 4
\* how many lines one file handle writes
MaxLines == 1

MaxInt == 2 ^ (IntBits - 1) - 1
MinInt == 0 - 2 ^ (IntBits - 1)
Ints == MinInt .. MaxInt

\* two's-complement wrap-around of Go's int arithmetic
Wrap(x) == ((x - MinInt) % (2 ^ IntBits)) + MinInt

(***************************************************************************)
(* Inputs.                                                                 *)
(***************************************************************************)
\* filenames handed to New; "a" and "b" are two names with the same digest
Names == {"", "std", "a", "b"}
\* the filenames the full-API runs hand to New
LogNames == {"std", "a"}
ProgNames == {"p1", "p2"}
\* the program name of the full-API runs
LogProgNames == {"p1"}
Msgs == {"m"}
Procs == {1, 2}

\* the digest of a name: a function from unboundedly many names into a
\* fixed-size key space, hence not injective
Md5(str) == CASE str = "std" -> 1
              [] str = "a" -> 2
              [] str = "b" -> 2
              [] OTHER -> 0
Keys == {Md5(n) : n \in Names \ {""}}

(***************************************************************************)
(* set.go                                                                  *)
(***************************************************************************)
\* set.contains: a missing key reads as the zero value ""
contains(s, ce, str) ==
    IF str = "" THEN ce ELSE s[Md5(str)] = str

\* set.add, the map after the call
addMap(s, str) ==
    IF str = "" THEN s ELSE [s EXCEPT ![Md5(str)] = str]

\* set.add, the flag after the call
addEmpty(ce, str) ==
    IF str = "" THEN TRUE ELSE ce

(***************************************************************************)
(* Text and files.                                                         *)
(***************************************************************************)
NL == "\n"
TAB == "\t"
HOLE == <<"\\0">>

\* fmt.Sprint(v) of the variadic slice itself: the slice is printed, in brackets
SprintSlice(v) == <<"[">> \o v \o <<"]">>
\* fmt.Sprintf("%v", v...) of one operand
SprintfSpread(v) == v
\* fmt.Sprintf("%v", v): the slice is the single operand
SprintfSlice(v) == <<"[">> \o v \o <<"]">>
\* fmt.Sprintln(v...)
Sprintln(v) == v \o <<NL>>

\* log.Logger.Output appends a newline unless the text ends with one
OutputLine(s) == IF Len(s) > 0 /\ s[Len(s)] = NL THEN s ELSE s \o <<NL>>

\* a write of one line at a handle's offset (os.Create opens without O_APPEND)
WriteAt(content, off, line) ==
    [i \in 1 .. (IF off + 1 > Len(content) THEN off + 1 ELSE Len(content)) |->
        IF i = off + 1 THEN line
        ELSE IF i <= Len(content) THEN content[i] ELSE HOLE]

\* runtime.Caller(skip) as log.Logger.Output uses it: the frame skip levels
\* above Output's own, which is the frame the line is attributed to
Caller(stack, skip) ==
    IF skip + 1 \in DOMAIN stack THEN stack[skip + 1] ELSE "???"

NoCall == [op |-> "none", pkg |-> FALSE, logger |-> 0, name |-> "", arg |-> 0,
           err |-> "", events |-> <<>>, depth |-> 0, stack |-> <<>>,
           line |-> <<>>, msg |-> "", prev |-> 0, ret |-> 0]

Init ==
    /\ enabled = FALSE
    /\ programName = ""
    /\ logPath = <<>>
    /\ stdlogger = 0
    /\ fileSet = [k \in Keys |-> ""]
    /\ containsEmpty = FALSE
    /\ loggers = <<>>
    /\ files = [n \in {} |-> <<>>]
    /\ status = "running"
    /\ exitCode = 0
    /\ last = NoCall
    /\ cpc = [p \in Procs |-> "idle"]
    /\ cname = [p \in Procs |-> ""]
    /\ cres = [p \in Procs |-> ""]

(***************************************************************************)
(* logger.go: New and Init.                                                *)
(***************************************************************************)
ErrAlready == "logger already initialized"
ErrNotInit == "Logger not initialized, unable to create new Logger object."
ErrDup == "Another logger is already logging to that file"
ErrUser == "user.Current failed"
ErrMkdir == "os.MkdirAll failed"
ErrCreate == "os.Create failed"

\* newLogFile: os.Create makes the file or truncates it; createOk is whether
\* the operating system lets it
newLogFile(fl, logName, createOk) ==
    IF createOk
    THEN [err |-> "",
          files |-> (logName :> <<>>) @@ fl]
    ELSE [err |-> ErrCreate, files |-> fl]

\* New(filename), called while the enabled flag reads en
New(en, filename, createOk) ==
    LET same == [err |-> "", logger |-> 0, fileSet |-> fileSet,
                 containsEmpty |-> containsEmpty, loggers |-> loggers,
                 files |-> files]
        f == newLogFile(files, filename, createOk)
    IN  IF ~en THEN [same EXCEPT !.err = ErrNotInit]
        ELSE IF contains(fileSet, containsEmpty, filename)
        THEN [same EXCEPT !.err = ErrDup]
        ELSE IF f.err # "" THEN [same EXCEPT !.err = f.err]
        ELSE [err |-> "",
              logger |-> Len(loggers) + 1,
              fileSet |-> addMap(fileSet, filename),
              containsEmpty |-> addEmpty(containsEmpty, filename),
              loggers |-> Append(loggers,
                            [file |-> filename, off |-> 0, tabLevel |-> 0]),
              files |-> f.files]

\* filepath.Join(usr.HomeDir, "logs", programName, currRun)
JoinLogPath(progName) == <<"home", "logs", progName, "run">>

\* Init(progName) past its guard (lines 34-58), as a function of what the
\* environment answers
InitFresh(progName, userOk, mkdirOk, createOk) ==
    LET same == [err |-> "", enabled |-> enabled, programName |-> progName,
                 logPath |-> logPath, stdlogger |-> stdlogger,
                 fileSet |-> fileSet, containsEmpty |-> containsEmpty,
                 loggers |-> loggers, files |-> files]
        n == New(TRUE, "std", createOk)
    IN  IF ~userOk THEN [same EXCEPT !.err = ErrUser]
        ELSE IF ~mkdirOk
        THEN [same EXCEPT !.err = ErrMkdir, !.logPath = JoinLogPath(progName)]
        ELSE [err |-> n.err, enabled |-> TRUE, programName |-> progName,
              logPath |-> JoinLogPath(progName), stdlogger |-> n.logger,
              fileSet |-> n.fileSet, containsEmpty |-> n.containsEmpty,
              loggers |-> n.loggers, files |-> n.files]

\* Init without its guard on enabled
InitResultUnguarded(progName, userOk, mkdirOk, createOk) ==
    InitFresh(progName, userOk, mkdirOk, createOk)

\* Init(progName)
InitResult(progName, userOk, mkdirOk, createOk) ==
    IF enabled
    THEN [err |-> ErrAlready, enabled |-> enabled,
          programName |-> programName, logPath |-> logPath,
          stdlogger |-> stdlogger, fileSet |-> fileSet,
          containsEmpty |-> containsEmpty, loggers |-> loggers,
          files |-> files]
    ELSE InitFresh(progName, userOk, mkdirOk, createOk)

InitCallOf(progs) ==
    /\ status = "running"
    /\ \A p \in Procs : cpc[p] = "idle"
    /\ \E progName \in progs, userOk, mkdirOk, createOk \in BOOLEAN :
         LET r == InitResult(progName, userOk, mkdirOk, createOk) IN
         /\ enabled' = r.enabled
         /\ programName' = r.programName
         /\ logPath' = r.logPath
         /\ stdlogger' = r.stdlogger
         /\ fileSet' = r.fileSet
         /\ containsEmpty' = r.containsEmpty
         /\ loggers' = r.loggers
         /\ files' = r.files
         /\ last' = [NoCall EXCEPT !.op = "Init", !.name = progName,
                                   !.err = r.err, !.logger = r.stdlogger]
    /\ UNCHANGED <<status, exitCode, concVars>>

NewCallOf(names, max) ==
    /\ status = "running"
    /\ \E filename \in names, createOk \in BOOLEAN :
         LET r == New(enabled, filename, createOk) IN
         /\ Len(r.loggers) <= max
         /\ fileSet' = r.fileSet
         /\ containsEmpty' = r.containsEmpty
         /\ loggers' = r.loggers
         /\ files' = r.files
         /\ last' = [NoCall EXCEPT !.op = "New", !.name = filename,
                                   !.err = r.err, !.logger = r.logger]
    /\ UNCHANGED <<enabled, programName, logPath, stdlogger, status, exitCode,
                   concVars>>

(***************************************************************************)
(* logger.go: the methods of Logger.  A method is a function from the      *)
(* receiver l (0 is the nil pointer) and its arguments to its effect: the  *)
(* Logger values and files after the call, how the call ended, and what    *)
(* log.Logger.Output was asked to do.  stack lists the frames above the    *)
(* callee, innermost first, the user's frame last.                         *)
(***************************************************************************)
Effect == [loggers |-> loggers, files |-> files, end |-> "return",
           code |-> 0, events |-> <<>>, depth |-> 0, stack |-> <<>>,
           line |-> <<>>, ret |-> 0]

\* a method reached through a nil *Logger dereferences it: a run-time panic
NilDeref == [Effect EXCEPT !.end = "panic", !.code = 2,
                           !.events = <<"nil dereference">>]

\* SetTab without the clamp of negative levels
SetTabNoClamp(l, i) ==
    IF l = 0 THEN NilDeref
    ELSE [Effect EXCEPT !.loggers = [loggers EXCEPT ![l].tabLevel = i]]

\* Logger.SetTab
SetTab(l, i) ==
    IF l = 0 THEN NilDeref
    ELSE [Effect EXCEPT !.loggers =
             [loggers EXCEPT ![l].tabLevel = IF i < 0 THEN 0 ELSE i]]

\* Logger.IncTab
IncTab(l) ==
    IF l = 0 THEN NilDeref ELSE SetTab(l, Wrap(loggers[l].tabLevel + 1))

\* Logger.DecTab
DecTab(l) ==
    IF l = 0 THEN NilDeref ELSE SetTab(l, Wrap(loggers[l].tabLevel - 1))

\* Logger.TabLevel, and the read of stdlogger.tabLevel in the package's TabLevel
TabLevel(l) ==
    IF l = 0 THEN NilDeref ELSE [Effect EXCEPT !.ret = loggers[l].tabLevel]

\* Logger.tabs: tabLevel tab characters
tabs(l) == [i \in 1 .. loggers[l].tabLevel |-> TAB]

\* log.Logger.Output(calldepth, s) on the logger's file handle: the line goes
\* to the file at the handle's offset; stack is recorded with Output's own
\* frame first
Output(l, calldepth, s, stack) ==
    [Effect EXCEPT
       !.files = [files EXCEPT ![loggers[l].file] =
                     WriteAt(@, loggers[l].off, OutputLine(s))],
       !.loggers = [loggers EXCEPT ![l].off = @ + 1],
       !.events = <<"Output">>,
       !.depth = calldepth,
       !.stack = <<"Output">> \o stack,
       !.line = OutputLine(s)]

\* Logger.print
print(l, v, calldepth, stack) ==
    IF l = 0 THEN NilDeref
    ELSE Output(l, calldepth + 1, v, <<"print">> \o stack)

\* fatal with the two statements swapped: the process is gone before print
fatalExitFirst(l, v, calldepth, stack) ==
    IF l = 0 THEN NilDeref
    ELSE [Effect EXCEPT !.end = "exit", !.code = 1, !.events = <<"os.Exit">>]

\* fatal handing its own call depth on, without the frame it adds
fatalSameDepth(l, v, calldepth, stack) ==
    LET p == print(l, v, calldepth, <<"fatal">> \o stack) IN
    IF p.end # "return" THEN p
    ELSE [p EXCEPT !.end = "exit", !.code = 1,
                   !.events = @ \o <<"os.Exit">>]

\* Logger.fatal: print, then os.Exit(1)
fatal(l, v, calldepth, stack) ==
    LET p == print(l, v, calldepth + 1, <<"fatal">> \o stack) IN
    IF p.end # "return" THEN p
    ELSE [p EXCEPT !.end = "exit", !.code = 1,
                   !.events = @ \o <<"os.Exit">>]

\* Logger.panic: print, then panic(v)
panic(l, v, calldepth, stack) ==
    LET p == print(l, v, calldepth + 1, <<"panic">> \o stack) IN
    IF p.end # "return" THEN p
    ELSE [p EXCEPT !.end = "panic", !.code = 2,
                   !.events = @ \o <<"panic">>]

\* The logging methods of Logger.  m is the one operand of the call (with
\* the format "%v" for the f variants); the method's own frame sits between
\* the helper and the user's frame.
\* Logger.Print: l.print(fmt.Sprint(v), 2)
LoggerPrint(l, m) == print(l, SprintSlice(<<m>>), 2, <<"Logger.Print", "user">>)
\* Logger.Printf: l.print(fmt.Sprintf(format, v...), 2)
LoggerPrintf(l, m) == print(l, SprintfSpread(<<m>>), 2, <<"Logger.Printf", "user">>)
\* Logger.Println: l.print(fmt.Sprintln(v...), 2)
LoggerPrintln(l, m) == print(l, Sprintln(<<m>>), 2, <<"Logger.Println", "user">>)
\* Logger.Fatal: l.fatal(fmt.Sprint(v), 2)
LoggerFatal(l, m) == fatal(l, SprintSlice(<<m>>), 2, <<"Logger.Fatal", "user">>)
\* Logger.Fatalf: l.fatal(fmt.Sprintf(format, v), 2)
LoggerFatalf(l, m) == fatal(l, SprintfSlice(<<m>>), 2, <<"Logger.Fatalf", "user">>)
\* Logger.Fatalln: l.fatal(fmt.Sprintln(v...), 2)
LoggerFatalln(l, m) == fatal(l, Sprintln(<<m>>), 2, <<"Logger.Fatalln", "user">>)
\* Logger.Panic: l.panic(fmt.Sprint(v), 2)
LoggerPanic(l, m) == panic(l, SprintSlice(<<m>>), 2, <<"Logger.Panic", "user">>)
\* Logger.Panicf: l.panic(fmt.Sprintf(format, v...), 2)
LoggerPanicf(l, m) == panic(l, SprintfSpread(<<m>>), 2, <<"Logger.Panicf", "user">>)
\* Logger.Panicln: l.panic(fmt.Sprintln(v...), 2)
LoggerPanicln(l, m) == panic(l, Sprintln(<<m>>), 2, <<"Logger.Panicln", "user">>)

(***************************************************************************)
(* logger.go: the standard logger wrappers.                                *)
(***************************************************************************)
\* wrappers that reach for the Logger created last
pkgReceiverNewest == Len(loggers)

\* the receiver of every package-level wrapper
pkgReceiver == stdlogger

\* IncTab()
StdIncTab == IncTab(pkgReceiver)
\* DecTab()
StdDecTab == DecTab(pkgReceiver)
\* SetTab(i)
StdSetTab(i) == SetTab(pkgReceiver, i)
\* TabLevel(): reads stdlogger.tabLevel
StdTabLevel == TabLevel(pkgReceiver)
\* Print: stdlogger.print(fmt.Sprint(v), 2)
StdPrint(m) == print(pkgReceiver, SprintSlice(<<m>>), 2, <<"Print", "user">>)
\* Printf: stdlogger.print(fmt.Sprintf(format, v...), 2)
StdPrintf(m) == print(pkgReceiver, SprintfSpread(<<m>>), 2, <<"Printf", "user">>)
\* Println: stdlogger.print(fmt.Sprintln(v...), 2)
StdPrintln(m) == print(pkgReceiver, Sprintln(<<m>>), 2, <<"Println", "user">>)
\* Fatal: stdlogger.fatal(fmt.Sprint(v), 2)
StdFatal(m) == fatal(pkgReceiver, SprintSlice(<<m>>), 2, <<"Fatal", "user">>)
\* Fatalf: stdlogger.fatal(fmt.Sprintf(format, v...), 2)
StdFatalf(m) == fatal(pkgReceiver, SprintfSpread(<<m>>), 2, <<"Fatalf", "user">>)
\* Fatalln: stdlogger.fatal(fmt.Sprintln(v...), 2)
StdFatalln(m) == fatal(pkgReceiver, Sprintln(<<m>>), 2, <<"Fatalln", "user">>)
\* Panic: stdlogger.panic(fmt.Sprint(v), 2)
StdPanic(m) == panic(pkgReceiver, SprintSlice(<<m>>), 2, <<"Panic", "user">>)
\* Panicf: stdlogger.panic(fmt.Sprintf(format, v...), 2)
StdPanicf(m) == panic(pkgReceiver, SprintfSpread(<<m>>), 2, <<"Panicf", "user">>)
\* Panicln: stdlogger.panic(fmt.Sprintln(v...), 2)
StdPanicln(m) == panic(pkgReceiver, Sprintln(<<m>>), 2, <<"Panicln", "user">>)

(***************************************************************************)
(* Actions: one per exported operation.                                    *)
(***************************************************************************)
\* the call op(l, ...) with effect e is made and recorded
Do(op, pkg, l, m, i, e) ==
    /\ loggers' = e.loggers
    /\ files' = e.files
    /\ status' = CASE e.end = "return" -> "running"
                   [] e.end = "exit" -> "exited"
                   [] e.end = "panic" -> "panicked"
    /\ exitCode' = e.code
    /\ last' = [NoCall EXCEPT !.op = op, !.pkg = pkg, !.logger = l, !.msg = m,
                              !.arg = i, !.events = e.events,
                              !.depth = e.depth, !.stack = e.stack,
                              !.line = e.line, !.ret = e.ret,
                              !.prev = IF l = 0 THEN 0 ELSE loggers[l].tabLevel]
    /\ UNCHANGED <<pkgVars, concVars>>

\* the Logger values the user holds
Held == 1 .. Len(loggers)
\* a handle that may still write a line within the bound
CanWrite(l) == IF l = 0 THEN TRUE ELSE loggers[l].off < MaxLines
Running == status = "running"

CallLoggerIncTab ==
    Running /\ \E l \in Held : Do("IncTab", FALSE, l, "", 0, IncTab(l))
CallLoggerDecTab ==
    Running /\ \E l \in Held : Do("DecTab", FALSE, l, "", 0, DecTab(l))
CallLoggerSetTab ==
    Running /\ \E l \in Held, i \in Ints : Do("SetTab", FALSE, l, "", i, SetTab(l, i))
CallLoggerTabLevel ==
    Running /\ \E l \in Held : Do("TabLevel", FALSE, l, "", 0, TabLevel(l))
CallLoggerPrint ==
    Running /\ \E l \in Held, m \in Msgs :
        CanWrite(l) /\ Do("Print", FALSE, l, m, 0, LoggerPrint(l, m))
CallLoggerPrintf ==
    Running /\ \E l \in Held, m \in Msgs :
        CanWrite(l) /\ Do("Printf", FALSE, l, m, 0, LoggerPrintf(l, m))
CallLoggerPrintln ==
    Running /\ \E l \in Held, m \in Msgs :
        CanWrite(l) /\ Do("Println", FALSE, l, m, 0, LoggerPrintln(l, m))
CallLoggerFatal ==
    Running /\ \E l \in Held, m \in Msgs :
        CanWrite(l) /\ Do("Fatal", FALSE, l, m, 0, LoggerFatal(l, m))
CallLoggerFatalf ==
    Running /\ \E l \in Held, m \in Msgs :
        CanWrite(l) /\ Do("Fatalf", FALSE, l, m, 0, LoggerFatalf(l, m))
CallLoggerFatalln ==
    Running /\ \E l \in Held, m \in Msgs :
        CanWrite(l) /\ Do("Fatalln", FALSE, l, m, 0, LoggerFatalln(l, m))
CallLoggerPanic ==
    Running /\ \E l \in Held, m \in Msgs :
        CanWrite(l) /\ Do("Panic", FALSE, l, m, 0, LoggerPanic(l, m))
CallLoggerPanicf ==
    Running /\ \E l \in Held, m \in Msgs :
        CanWrite(l) /\ Do("Panicf", FALSE, l, m, 0, LoggerPanicf(l, m))
CallLoggerPanicln ==
    Running /\ \E l \in Held, m \in Msgs :
        CanWrite(l) /\ Do("Panicln", FALSE, l, m, 0, LoggerPanicln(l, m))
CallIncTab ==
    Running /\ Do("IncTab", TRUE, pkgReceiver, "", 0, StdIncTab)
CallDecTab ==
    Running /\ Do("DecTab", TRUE, pkgReceiver, "", 0, StdDecTab)
CallSetTab ==
    Running /\ \E i \in Ints : Do("SetTab", TRUE, pkgReceiver, "", i, StdSetTab(i))
CallTabLevel ==
    Running /\ Do("TabLevel", TRUE, pkgReceiver, "", 0, StdTabLevel)
CallPrint ==
    Running /\ \E m \in Msgs :
        CanWrite(pkgReceiver) /\ Do("Print", TRUE, pkgReceiver, m, 0, StdPrint(m))
CallPrintf ==
    Running /\ \E m \in Msgs :
        CanWrite(pkgReceiver) /\ Do("Printf", TRUE, pkgReceiver, m, 0, StdPrintf(m))
CallPrintln ==
    Running /\ \E m \in Msgs :
        CanWrite(pkgReceiver) /\ Do("Println", TRUE, pkgReceiver, m, 0, StdPrintln(m))
CallFatal ==
    Running /\ \E m \in Msgs :
        CanWrite(pkgReceiver) /\ Do("Fatal", TRUE, pkgReceiver, m, 0, StdFatal(m))
CallFatalf ==
    Running /\ \E m \in Msgs :
        CanWrite(pkgReceiver) /\ Do("Fatalf", TRUE, pkgReceiver, m, 0, StdFatalf(m))
CallFatalln ==
    Running /\ \E m \in Msgs :
        CanWrite(pkgReceiver) /\ Do("Fatalln", TRUE, pkgReceiver, m, 0, StdFatalln(m))
CallPanic ==
    Running /\ \E m \in Msgs :
        CanWrite(pkgReceiver) /\ Do("Panic", TRUE, pkgReceiver, m, 0, StdPanic(m))
CallPanicf ==
    Running /\ \E m \in Msgs :
        CanWrite(pkgReceiver) /\ Do("Panicf", TRUE, pkgReceiver, m, 0, StdPanicf(m))
CallPanicln ==
    Running /\ \E m \in Msgs :
        CanWrite(pkgReceiver) /\ Do("Panicln", TRUE, pkgReceiver, m, 0, StdPanicln(m))

\* Init and New in the runs that use the whole API
InitCall == InitCallOf(LogProgNames)
NewCall == NewCallOf(LogNames, MaxLoggers)

Next ==
    \/ InitCall
    \/ NewCall
    \/ CallLoggerIncTab
    \/ CallLoggerDecTab
    \/ CallLoggerSetTab
    \/ CallLoggerTabLevel
    \/ CallLoggerPrint
    \/ CallLoggerPrintf
    \/ CallLoggerPrintln
    \/ CallLoggerFatal
    \/ CallLoggerFatalf
    \/ CallLoggerFatalln
    \/ CallLoggerPanic
    \/ CallLoggerPanicf
    \/ CallLoggerPanicln
    \/ CallIncTab
    \/ CallDecTab
    \/ CallSetTab
    \/ CallTabLevel
    \/ CallPrint
    \/ CallPrintf
    \/ CallPrintln
    \/ CallFatal
    \/ CallFatalf
    \/ CallFatalln
    \/ CallPanic
    \/ CallPanicf
    \/ CallPanicln

Spec == Init /\ [][Next]_vars

(***************************************************************************)
(* Runs that only initialise the package and create loggers.               *)
(***************************************************************************)
RegInitCall == InitCallOf(ProgNames)
RegNewCall == NewCallOf(Names, MaxLoggers)

NextReg == RegInitCall \/ RegNewCall

SpecReg == Init /\ [][NextReg]_vars

(***************************************************************************)
(* New called from two goroutines.  New takes no lock, so its statements   *)
(* interleave: the read of enabled (line 185), fileSet.contains (189),     *)
(* newLogFile (193) and fileSet.add with the return (200-202).             *)
(***************************************************************************)
ConcReturn(p, name, res) ==
    /\ cpc' = [cpc EXCEPT ![p] = "done"]
    /\ cres' = [cres EXCEPT ![p] = res]
    /\ last' = [NoCall EXCEPT !.op = "New", !.name = name, !.err = res]

\* line 185: if !enabled
ConcNewEnter(p) ==
    /\ Running
    /\ cpc[p] = "idle"
    /\ \E filename \in Names :
         /\ cname' = [cname EXCEPT ![p] = filename]
         /\ IF ~enabled
            THEN ConcReturn(p, filename, ErrNotInit)
            ELSE /\ cpc' = [cpc EXCEPT ![p] = "contains"]
                 /\ UNCHANGED <<cres, last>>
    /\ UNCHANGED <<pkgVars, loggers, files, status, exitCode>>

\* line 189: if fileSet.contains(filename)
ConcNewContains(p) ==
    /\ Running
    /\ cpc[p] = "contains"
    /\ IF contains(fileSet, containsEmpty, cname[p])
       THEN ConcReturn(p, cname[p], ErrDup)
       ELSE /\ cpc' = [cpc EXCEPT ![p] = "create"]
            /\ UNCHANGED <<cres, last>>
    /\ UNCHANGED <<pkgVars, loggers, files, status, exitCode, cname>>

\* lines 193-196: file, err := newLogFile(filename)
ConcNewCreate(p) ==
    /\ Running
    /\ cpc[p] = "create"
    /\ \E createOk \in BOOLEAN :
         LET f == newLogFile(files, cname[p], createOk) IN
         /\ files' = f.files
         /\ IF f.err # ""
            THEN ConcReturn(p, cname[p], f.err)
            ELSE /\ cpc' = [cpc EXCEPT ![p] = "add"]
                 /\ UNCHANGED <<cres, last>>
    /\ UNCHANGED <<pkgVars, loggers, status, exitCode, cname>>

\* lines 198-202: fileSet.add(filename); return &Logger{gologger, 0}, nil
ConcNewAdd(p) ==
    /\ Running
    /\ cpc[p] = "add"
    /\ fileSet' = addMap(fileSet, cname[p])
    /\ containsEmpty' = addEmpty(containsEmpty, cname[p])
    /\ loggers' = Append(loggers,
                         [file |-> cname[p], off |-> 0, tabLevel |-> 0])
    /\ ConcReturn(p, cname[p], "ok")
    /\ UNCHANGED <<enabled, programName, logPath, stdlogger, files, status,
                   exitCode, cname>>

\* a map write that overlaps another goroutine's access of the map is a data
\* race; one outcome is the run-time's "fatal error: concurrent map writes"
ConcMapRace ==
    /\ Running
    /\ \E p, q \in Procs :
         /\ p # q
         /\ cpc[p] = "add" /\ cname[p] # ""
         /\ cpc[q] \in {"contains", "add"} /\ cname[q] # ""
    /\ status' = "exited"
    /\ exitCode' = 2
    /\ last' = [NoCall EXCEPT !.op = "fatal error: concurrent map access"]
    /\ UNCHANGED <<pkgVars, loggers, files, concVars>>

ConcEnter == \E p \in Procs : ConcNewEnter(p)
ConcContains == \E p \in Procs : ConcNewContains(p)
ConcCreate == \E p \in Procs : ConcNewCreate(p)
ConcAdd == \E p \in Procs : ConcNewAdd(p)

NextConc ==
    \/ InitCall
    \/ ConcEnter
    \/ ConcContains
    \/ ConcCreate
    \/ ConcAdd
    \/ ConcMapRace

SpecConc == Init /\ [][NextConc]_vars

(***************************************************************************)
(* Properties of the registry and of Init (checked under SpecReg).         *)
(***************************************************************************)
\* the Logger values bound to file n by a call of New the user made before
\* the last call
EarlierLoggers(n) ==
    {i \in DOMAIN loggers \ {stdlogger, last.logger} : loggers[i].file = n}

\* C1: after Init has succeeded and a first New(n) has succeeded, a second
\* New(n) returns the duplicate-logger error and no Logger, and n.log exists
\* (a directory holds one file of a name).
C1_SecondNewIsDuplicate ==
    (last.op = "New" /\ stdlogger # 0 /\ EarlierLoggers(last.name) # {})
        => /\ last.err = ErrDup
           /\ last.logger = 0
           /\ last.name \in DOMAIN files

\* C2: no two Logger values are bound to the same filename.
C2_OneLoggerPerFile ==
    \A i, j \in DOMAIN loggers :
        loggers[i].file = loggers[j].file => i = j

\* C5: once Init has succeeded, every later Init fails with the
\* already-initialized error and changes neither the run context nor the
\* standard logger nor the registry.
C5_InitTwiceFails ==
    [][(stdlogger # 0 /\ last'.op = "Init")
         => /\ last'.err = ErrAlready
            /\ UNCHANGED <<enabled, programName, logPath, stdlogger, fileSet,
                           containsEmpty, loggers, files>>]_vars

\* a second Init, under another program name, has been refused
C5_Witness ==
    /\ last.op = "Init"
    /\ last.err = ErrAlready
    /\ stdlogger # 0
    /\ last.name # programName

(***************************************************************************)
(* Properties of logging and indentation (checked under Spec).             *)
(***************************************************************************)
PrintOps == {"Print", "Printf", "Println"}
FatalOps == {"Fatal", "Fatalf", "Fatalln"}
PanicOps == {"Panic", "Panicf", "Panicln"}

\* the line the last call's handle wrote, read back from its file
LineInFile ==
    LET lg == loggers[last.logger] IN
    IF lg.file \in DOMAIN files /\ lg.off \in DOMAIN files[lg.file]
    THEN files[lg.file][lg.off] ELSE <<>>

\* C3: a line logged through L with Print, Printf or Println while L's tab
\* level is k reaches L's file as the message preceded by exactly k tabs.
C3_LineIsIndented ==
    (last.op \in PrintOps /\ last.logger # 0)
        => /\ last.line = tabs(last.logger) \o <<last.msg, NL>>
           /\ LineInFile = last.line

\* C4: while Init has never been called, a package-level call is ignored: it
\* returns normally and changes nothing.
C4_IgnoredWithoutInit ==
    (programName = "" /\ last.pkg)
        => /\ status = "running"
           /\ loggers = <<>>
           /\ DOMAIN files = {}

\* C6: once Init has succeeded the standard logger stays the same Logger,
\* bound to std.log, and a package-level call reads and changes that Logger's
\* tab level and file only.
C6_StdRouting ==
    [][stdlogger # 0
         => /\ stdlogger' = stdlogger
            /\ loggers'[stdlogger].file = "std"
            /\ last'.pkg
                 => /\ last'.logger = stdlogger
                    /\ DOMAIN loggers' = DOMAIN loggers
                    /\ DOMAIN files' = DOMAIN files
                    /\ \A i \in DOMAIN loggers \ {stdlogger} :
                         loggers'[i] = loggers[i]
                    /\ \A f \in DOMAIN files \ {"std"} : files'[f] = files[f]
                    /\ last'.op = "TabLevel"
                         => last'.ret = loggers[stdlogger].tabLevel
                    /\ last'.op \in PrintOps \cup FatalOps \cup PanicOps
                         => /\ files'["std"] # files["std"]
                            /\ loggers'[stdlogger].tabLevel
                                 = loggers[stdlogger].tabLevel
                    /\ last'.op \in {"IncTab", "DecTab", "SetTab"}
                         => files' = files]_vars

\* a package-level Print has written to std.log while another logger exists
C6_Witness ==
    /\ stdlogger # 0
    /\ Len(loggers) = 2
    /\ last.pkg
    /\ last.op = "Print"
    /\ files["std"] # <<>>
    /\ files["a"] = <<>>

\* C7: no tab level is ever negative; a new logger starts at 0, SetTab of a
\* negative level gives 0, DecTab at 0 stays at 0, and IncTab at the largest
\* integer, where the sum wraps around, does not go negative either.
C7_TabLevelNonNegative ==
    /\ \A l \in DOMAIN loggers : loggers[l].tabLevel >= 0
    /\ (last.op \in {"New", "Init"} /\ last.err = "")
         => loggers[last.logger].tabLevel = 0
    /\ (last.op = "SetTab" /\ last.logger # 0 /\ last.arg < 0)
         => loggers[last.logger].tabLevel = 0
    /\ (last.op = "SetTab" /\ last.logger # 0 /\ last.arg >= 0)
         => loggers[last.logger].tabLevel = last.arg
    /\ (last.op = "DecTab" /\ last.logger # 0 /\ last.prev = 0)
         => loggers[last.logger].tabLevel = 0
    /\ (last.op = "TabLevel" /\ last.logger # 0)
         => last.ret = loggers[last.logger].tabLevel /\ last.ret >= 0

\* IncTab has been called at the largest integer
C7_Witness ==
    /\ last.op = "IncTab"
    /\ last.logger # 0
    /\ last.prev = MaxInt
    /\ loggers[last.logger].tabLevel = 0

\* C8: Fatal, Fatalf and Fatalln write their line to the logger's file and
\* only then end the process with a non-zero status; Panic, Panicf and
\* Panicln write their line and only then panic; no other file is written.
C8_WriteThenEnd ==
    /\ [](last.op \in FatalOps \cup PanicOps /\ last.logger # 0
            => /\ LineInFile = last.line
               /\ last.line # <<>>
               /\ last.op \in FatalOps
                    => /\ last.events = <<"Output", "os.Exit">>
                       /\ status = "exited"
                       /\ exitCode # 0
               /\ last.op \in PanicOps
                    => /\ last.events = <<"Output", "panic">>
                       /\ status = "panicked")
    /\ [][(last'.op \in FatalOps \cup PanicOps /\ last'.logger # 0)
            => \A f \in DOMAIN files \ {loggers[last'.logger].file} :
                  f \in DOMAIN files' /\ files'[f] = files[f]]_vars

\* a Fatal on a logger other than the standard one has ended the process
C8_Witness ==
    /\ last.op = "Fatal"
    /\ ~last.pkg
    /\ last.logger # 0
    /\ last.logger # stdlogger
    /\ status = "exited"
    /\ exitCode = 1
    /\ LineInFile = <<"[", "m", "]", NL>>

\* C9: for every logging entry point the call depth handed to Output is the
\* number of frames below the user's (Output's own, as runtime.Caller counts
\* it, and the wrappers'), so the line is attributed to the user's frame.
C9_CallerIsUser ==
    (last.stack # <<>>)
        => /\ Caller(last.stack, last.depth) = "user"
           /\ last.depth = Len(last.stack) - 1
           /\ \A k \in 1 .. Len(last.stack) - 1 : last.stack[k] # "user"

\* a package-level Fatalln has gone through fatal and print to Output
C9_Witness ==
    /\ last.op = "Fatalln"
    /\ last.pkg
    /\ last.stack = <<"Output", "print", "fatal", "Fatalln", "user">>
    /\ last.depth = 4

(***************************************************************************)
(* Property of New under concurrent callers (checked under SpecConc).      *)
(***************************************************************************)
\* C10: of two concurrent calls of New with the same name at most one
\* returns a Logger.
C10_AtMostOneWins ==
    \A p, q \in Procs :
        (p # q /\ cpc[p] = "done" /\ cpc[q] = "done" /\ cname[p] = cname[q])
            => ~(cres[p] = "ok" /\ cres[q] = "ok")

(***************************************************************************)
(* Property of a failed Init (checked under SpecReg).                      *)
(***************************************************************************)
\* C11: an Init that returns an error (user lookup, directory creation or
\* the creation of std.log) leaves the package uninitialized: enabled is
\* false after it, and in every state enabled implies that the standard
\* logger exists.
C11_FailedInitLeavesDisabled ==
    /\ (last.op = "Init" /\ last.err \in {ErrUser, ErrMkdir, ErrCreate})
         => ~enabled
    /\ enabled => stdlogger # 0

====
